---- MODULE Spec2Model ----
(***************************************************************************)
(* Two-factor signature verification of the ra2033 worker: the fixed       *)
(* window rate limiter (Durable Object), the submission handler            *)
(* POST /api/signatures and the verification handler                       *)
(* POST /api/signatures/:id/verify, over the D1 tables public_signatures   *)
(* and verification_codes.                                                 *)
(***************************************************************************)
EXTENDS Integers, Sequences, FiniteSets, TLC

VARIABLES
    now,        \* wall clock in milliseconds (Date.now())
    rl,         \* Durable Object storage: key -> [count, resetTime]
    win,        \* ghost: per key, start and number of allowed answers of the observed window
    rlLast,     \* ghost: the last answered rate-limiter request
    rlReq,      \* rate-limiter requests in flight: position, clock reading and record read
    rlStarted,  \* number of in-flight-style rate-limiter requests started so far
    sigs,       \* table public_signatures: id -> row
    codes,      \* table verification_codes: set of rows
    nextId,     \* AUTOINCREMENT sequence of public_signatures
    sub,        \* POST /api/signatures requests: position and locals of each handler
    ver,        \* POST /api/signatures/:id/verify requests: position and locals
    fails,      \* ghost: per signature id, verification requests answered "Invalid verification codes"
    last,       \* ghost: the request answered by the last step, if any
    nSub,       \* number of submission requests started
    nVer,       \* number of verification requests started
    oks,        \* ghost: per signature id, verification requests answered with success
    initial,    \* table initial_signatories: number of rows
    cnt,        \* GET /api/signatures/count request: position and locals
    chk         \* POST /api/signatures/check request: position and locals

rlVars == <<rl, win, rlLast, rlReq, rlStarted>>
countVars == <<initial, cnt>>
appVars == <<sigs, codes, nextId, sub, ver, fails, last, nSub, nVer, oks, initial, cnt, chk>>
vars == <<now, rl, win, rlLast, rlReq, rlStarted, sigs, codes, nextId, sub, ver, fails, last, nSub, nVer,
          oks, initial, cnt, chk>>

----------------------------------------------------------------------------
(* Bounds *)

MaxClockRL == 93000
MaxClockConc == 90000
MaxRLReqs == 7

RLDeltas == {30000, 31000}
Keys == {"ip1", "admin-login-ip1"}
RLProcs == {"p1", "p2"}

----------------------------------------------------------------------------
(* Rate limiter *)

windowMs == 60000
maxRequests == 5

Max(a, b) == IF a >= b THEN a ELSE b
Min(a, b) == IF a <= b THEN a ELSE b

NoData == [count |-> 0, resetTime |-> 0]

HasData(store, key) == key \in DOMAIN store

StoragePut(store, key, value) ==
    [k \in DOMAIN store \cup {key} |-> IF k = key THEN value ELSE store[k]]

\* RateLimiter.fetch with the stored record already read: the answer and the
\* record written back (put = FALSE when the handler writes nothing).
RLNewWindowInclusive(has, data, t) == (~has) \/ t >= data.resetTime

RLNewWindow(has, data, t) == (~has) \/ t > data.resetTime

RLFullOffByOne(data) == data.count > maxRequests

RLFull(data) == data.count >= maxRequests

RLDecideRejectExtends(has, data, t) ==
    IF RLNewWindow(has, data, t)
    THEN [allowed |-> TRUE, status |-> 200, remaining |-> maxRequests - 1,
          put |-> TRUE, value |-> [count |-> 1, resetTime |-> t + windowMs]]
    ELSE IF RLFull(data)
    THEN [allowed |-> FALSE, status |-> 429, remaining |-> 0,
          put |-> TRUE, value |-> [count |-> data.count, resetTime |-> t + windowMs]]
    ELSE [allowed |-> TRUE, status |-> 200, remaining |-> maxRequests - data.count - 1,
          put |-> TRUE, value |-> [count |-> data.count + 1, resetTime |-> data.resetTime]]

RLDecide(has, data, t) ==
    IF RLNewWindow(has, data, t)
    THEN [allowed |-> TRUE, status |-> 200, remaining |-> maxRequests - 1,
          put |-> TRUE, value |-> [count |-> 1, resetTime |-> t + windowMs]]
    ELSE IF RLFull(data)
    THEN [allowed |-> FALSE, status |-> 429, remaining |-> 0,
          put |-> FALSE, value |-> data]
    ELSE [allowed |-> TRUE, status |-> 200, remaining |-> maxRequests - data.count - 1,
          put |-> TRUE, value |-> [count |-> data.count + 1, resetTime |-> data.resetTime]]

StorageGet(store, key) == IF HasData(store, key) THEN store[key] ELSE NoData

\* ghost bookkeeping: an allowed answer to a request that arrived at t either
\* falls in the observed window of the key or opens the next one
WinAfter(w, key, t, allowed) ==
    IF ~allowed THEN w
    ELSE IF key \in DOMAIN w /\ t <= w[key].start + windowMs
    THEN [w EXCEPT ![key].n = @ + 1]
    ELSE StoragePut(w, key, [start |-> t, n |-> 1])

NoWin == [start |-> 0, n |-> 0]

WinOf(w, key) == IF key \in DOMAIN w THEN w[key] ELSE NoWin

\* ghost record of an answered request: what was stored and observed before
\* it (prev, seen) and what it was answered
Answered(key, t, has, data, d) ==
    [key |-> key, at |-> t, had |-> has, prev |-> data, seen |-> WinOf(win, key),
     allowed |-> d.allowed, status |-> d.status, remaining |-> d.remaining]

NoLast == [key |-> "", at |-> 0, had |-> FALSE, prev |-> NoData, seen |-> NoWin,
           allowed |-> FALSE, status |-> 0, remaining |-> 0]

\* One whole fetch, get and put with no other request in between (the
\* Durable Object delivers one request at a time).
RLStore(key) ==
    LET d == RLDecide(HasData(rl, key), StorageGet(rl, key), now)
    IN  IF d.put THEN StoragePut(rl, key, d.value) ELSE rl

RLFetch(key) ==
    LET has == HasData(rl, key)
        data == StorageGet(rl, key)
        d == RLDecide(has, data, now)
    IN  /\ rl' = RLStore(key)
        /\ win' = WinAfter(win, key, now, d.allowed)
        /\ rlLast' = Answered(key, now, has, data, d)

RLRequest(key) ==
    /\ RLFetch(key)
    /\ UNCHANGED <<now, rlReq, rlStarted>>
    /\ UNCHANGED appVars

Tick(d, cap) ==
    /\ now + d <= cap
    /\ now' = now + d

RLTick ==
    /\ \E d \in RLDeltas : Tick(d, MaxClockRL)
    /\ UNCHANGED rlVars
    /\ UNCHANGED appVars

\* The same handler with several requests in flight at once: fetch in its
\* three steps, the reading of the clock, the return of storage.get, and the
\* decision with storage.put and the Response. The class takes no lock.
IdleReq == [pc |-> "idle", key |-> "", at |-> 0, had |-> FALSE, data |-> NoData]

\* a request is sent to the object of its key and waits to be delivered
RLArrive(p, key) ==
    /\ rlReq[p].pc = "idle"
    /\ rlStarted < MaxRLReqs
    /\ rlStarted' = rlStarted + 1
    /\ rlReq' = [rlReq EXCEPT ![p] = [IdleReq EXCEPT !.pc = "queued", !.key = key]]
    /\ UNCHANGED <<now, rl, win, rlLast>>
    /\ UNCHANGED appVars

\* fetch is called: const now = Date.now(), and storage.get is called
RLStart(p) ==
    /\ rlReq[p].pc = "queued"
    /\ rlReq' = [rlReq EXCEPT ![p].pc = "started", ![p].at = now]
    /\ UNCHANGED <<now, rl, win, rlLast, rlStarted>>
    /\ UNCHANGED appVars

\* The delivery of requests by the platform, not by the class: each key has
\* its own object (idFromName(key)), and a request is delivered to an object
\* only when no fetch of that object is waiting for a storage operation, so
\* the requests for one key wait their turn and only the clock and the
\* objects of other keys move between the steps of a fetch.
InputGateNone(p) == TRUE

InputGate(p) ==
    \A q \in RLProcs \ {p} :
        rlReq[q].key = rlReq[p].key => rlReq[q].pc \notin {"started", "got"}

\* storage.get returns the record as it is stored by then
RLGet(p) ==
    /\ rlReq[p].pc = "started"
    /\ rlReq' = [rlReq EXCEPT ![p].pc = "got",
                              ![p].had = HasData(rl, rlReq[p].key),
                              ![p].data = StorageGet(rl, rlReq[p].key)]
    /\ UNCHANGED <<now, rl, win, rlLast, rlStarted>>
    /\ UNCHANGED appVars

\* the decision on the record read and the earlier clock reading, the
\* storage.put if any, and the Response
RLPut(p) ==
    /\ rlReq[p].pc = "got"
    /\ LET r == rlReq[p]
           d == RLDecide(r.had, r.data, r.at)
       IN  /\ rl' = IF d.put THEN StoragePut(rl, r.key, d.value) ELSE rl
           /\ win' = WinAfter(win, r.key, r.at, d.allowed)
           /\ rlLast' = Answered(r.key, r.at, r.had, r.data, d)
    /\ rlReq' = [rlReq EXCEPT ![p] = IdleReq]
    /\ UNCHANGED <<now, rlStarted>>
    /\ UNCHANGED appVars

ConcTick ==
    /\ \E d \in RLDeltas : Tick(d, MaxClockConc)
    /\ UNCHANGED rlVars
    /\ UNCHANGED appVars

----------------------------------------------------------------------------
(* Strings: a string is the sequence of its UTF-16 code units. A code unit *)
(* of the printable ASCII range is written as itself, "\t", "\n", "\f" and  *)
(* "\r" by their escapes, and every other one by its code point, "U+00C9". *)
(* The alphabet of the inputs is ASCII, the Latin-1 supplement, U+0130 and *)
(* the white space of Unicode.                                             *)

\* the letters with a one-to-one lower case: A-Z, and U+00C0-U+00DE without
\* the multiplication sign U+00D7
UpperLetters == <<"A", "B", "C", "D", "E", "F", "G", "H", "I", "J", "K", "L",
                  "M", "N", "O", "P", "Q", "R", "S", "T", "U", "V", "W", "X",
                  "Y", "Z", "U+00C0", "U+00C1", "U+00C2", "U+00C3", "U+00C4",
                  "U+00C5", "U+00C6", "U+00C7", "U+00C8", "U+00C9", "U+00CA",
                  "U+00CB", "U+00CC", "U+00CD", "U+00CE", "U+00CF", "U+00D0",
                  "U+00D1", "U+00D2", "U+00D3", "U+00D4", "U+00D5", "U+00D6",
                  "U+00D8", "U+00D9", "U+00DA", "U+00DB", "U+00DC", "U+00DD",
                  "U+00DE">>
LowerLetters == <<"a", "b", "c", "d", "e", "f", "g", "h", "i", "j", "k", "l",
                  "m", "n", "o", "p", "q", "r", "s", "t", "u", "v", "w", "x",
                  "y", "z", "U+00E0", "U+00E1", "U+00E2", "U+00E3", "U+00E4",
                  "U+00E5", "U+00E6", "U+00E7", "U+00E8", "U+00E9", "U+00EA",
                  "U+00EB", "U+00EC", "U+00ED", "U+00EE", "U+00EF", "U+00F0",
                  "U+00F1", "U+00F2", "U+00F3", "U+00F4", "U+00F5", "U+00F6",
                  "U+00F8", "U+00F9", "U+00FA", "U+00FB", "U+00FC", "U+00FD",
                  "U+00FE">>

\* the lower case of one code unit, as String.prototype.toLowerCase gives
\* it: U+0130 (capital I with dot above) becomes "i" and U+0307
toLowerCaseChar(c) ==
    IF \E i \in 1..Len(UpperLetters) : UpperLetters[i] = c
    THEN <<LowerLetters[CHOOSE i \in 1..Len(UpperLetters) : UpperLetters[i] = c]>>
    ELSE IF c = "U+0130" THEN <<"i", "U+0307">>
    ELSE <<c>>

RECURSIVE toLowerCase(_)
toLowerCase(s) ==
    IF s = <<>> THEN <<>> ELSE toLowerCaseChar(Head(s)) \o toLowerCase(Tail(s))

\* \s of the regular expressions: [\t\n\v\f\r \u00a0\u1680\u2000-\u200a
\* \u2028\u2029\u202f\u205f\u3000\ufeff]
IsWhitespace(c) ==
    c \in {" ", "\t", "\n", "\r", "\f", "U+000B", "U+00A0", "U+1680",
           "U+2000", "U+2001", "U+2002", "U+2003", "U+2004", "U+2005",
           "U+2006", "U+2007", "U+2008", "U+2009", "U+200A",
           "U+2028", "U+2029", "U+202F", "U+205F", "U+3000", "U+FEFF"}

\* \D is everything but a decimal digit
IsDigit(c) == c \in {"0", "1", "2", "3", "4", "5", "6", "7", "8", "9"}

\* /^[^\s@]+@[^\s@]+\.[^\s@]+$/ : exactly one "@", no whitespace, a non-empty
\* local part, and after the "@" a "." with something on both sides of it
EmailRegexTest(s) ==
    \E i \in 1..Len(s), j \in 1..Len(s) :
        /\ s[i] = "@"
        /\ s[j] = "."
        /\ 2 <= i
        /\ i + 2 <= j
        /\ j + 1 <= Len(s)
        /\ \A k \in (1..Len(s)) \ {i} : ~IsWhitespace(s[k]) /\ s[k] # "@"

\* mobile.replace(/\D/g, '')
StripNonDigits(s) == SelectSeq(s, IsDigit)

StartsWith04(s) == Len(s) >= 2 /\ s[1] = "0" /\ s[2] = "4"

MobileShapeOkAnyZero(clean) == Len(clean) = 10 /\ clean[1] = "0"

MobileShapeOk(clean) == Len(clean) = 10 /\ StartsWith04(clean)

\* SHA-256 in hex: a one-way function without collisions on the inputs used
hashString(data) == <<"sha256", data>>

hashCode(code) == <<"sha256", code>>

\* the email as hashed by the handler
EmailIdentityRaw(email) == hashString(email)

EmailIdentity(email) == hashString(toLowerCase(email))

PhoneIdentity(mobile) == hashString(StripNonDigits(mobile))

\* the normalisation of the design text: surrounding whitespace removed
Trim(s) ==
    LET keep == {i \in 1..Len(s) : ~IsWhitespace(s[i])}
    IN  IF keep = {} THEN <<>>
        ELSE SubSeq(s, CHOOSE i \in keep : \A k \in keep : i <= k,
                       CHOOSE i \in keep : \A k \in keep : i >= k)

codeExpiryMinutes == 10

\* getCodeExpiryTime at time t
getCodeExpiryTime(t) == t + codeExpiryMinutes * 60000

maxAttempts == 3

----------------------------------------------------------------------------
(* Inputs *)

MaxClock == 600001
MaxSigs == 2
MaxSubmits == 2
MaxVerifies == 2
MaxAttemptsTried == 4
MaxStatusSubmits == 6
MaxRecoverVerifies == 4
MaxPendingSubmits == 2
MaxPendingVerifies == 3

Deltas == {600000, 600001}
SubReqs == {1, 2}
VerReqs == {1, 2}
ClientIp == "ip1"

EmailJane == <<"J", "@", "x", ".", "c">>
EmailJaneLower == <<"j", "@", "x", ".", "c">>
EmailJaneTrailing == <<"j", "@", "x", ".", "c", " ">>
EmailJaneLeading == <<" ", "J", "@", "x", ".", "c">>
EmailKim == <<"k", "@", "x", ".", "c">>
EmailNoDot == <<"k", "@", "x">>
EmailFormFeed == <<"a", "\f", "b", "@", "x", ".", "c">>
EmailDotted == <<"U+0130", "@", "x", ".", "c">>
EmailDottedLower == <<"i", "U+0307", "@", "x", ".", "c">>

MobileA == <<"0", "4", "1", "2", "3", "4", "5", "6", "7", "8">>
MobileASpaced == <<"0", "4", "1", "2", " ", "3", "4", "5", " ", "6", "7", "8">>
MobileB == <<"0", "4", "9", "8", "7", "6", "5", "4", "3", "2">>
MobileLandline == <<"0", "2", "9", "8", "7", "6", "5", "4", "3", "2">>
MobileShort == <<"0", "4", "1", "2", "3", "4", "5", "6", "7">>

Body(n, e, m) == [name |-> n, email |-> e, mobile |-> m]

Bodies == {
    Body("Jane Doe", EmailJane, MobileA),
    Body("Jane Doe", EmailJaneLower, MobileA),
    Body("Jane Doe", EmailJaneTrailing, MobileA),
    Body("Jane Doe", EmailJaneLeading, MobileA),
    Body("Jane Doe", EmailJane, MobileB),
    Body("Kim", EmailKim, MobileASpaced),
    Body("", EmailKim, MobileB),
    Body("Kim", EmailNoDot, MobileB),
    Body("Kim", EmailKim, MobileLandline),
    Body("Kim", EmailKim, MobileShort) }

\* generateVerificationCode, called twice: the email code and the SMS code
GenCodePairs == {<<"123456", "654321">>, <<"654321", "123456">>}
SubmittedCodes == {"123456", "654321"}

----------------------------------------------------------------------------
(* Tables *)

NULL == -1

\* SELECT id FROM public_signatures WHERE email_hash = ? OR phone_hash = ?
SelectExistingEmailOnly(t, eh, ph) ==
    {id \in DOMAIN t : t[id].email_hash = eh}

SelectExisting(t, eh, ph) ==
    {id \in DOMAIN t : t[id].email_hash = eh \/ t[id].phone_hash = ph}

\* SELECT id FROM public_signatures WHERE email_hash = ? AND email_verified = 1
SelectVerifiedEmail(t, eh) ==
    {id \in DOMAIN t : t[id].email_hash = eh /\ t[id].email_verified}

\* SELECT id FROM public_signatures WHERE phone_hash = ? AND phone_verified = 1
SelectVerifiedPhone(t, ph) ==
    {id \in DOMAIN t : t[id].phone_hash = ph /\ t[id].phone_verified}

\* INSERT INTO public_signatures (...) VALUES (..., 0, 0)
InsertSignatureVerified(t, id, eh, ph) ==
    [k \in DOMAIN t \cup {id} |->
        IF k = id
        THEN [email_hash |-> eh, phone_hash |-> ph,
              email_verified |-> TRUE, phone_verified |-> TRUE,
              verification_completed_at |-> 0]
        ELSE t[k]]

InsertSignature(t, id, eh, ph) ==
    [k \in DOMAIN t \cup {id} |->
        IF k = id
        THEN [email_hash |-> eh, phone_hash |-> ph,
              email_verified |-> FALSE, phone_verified |-> FALSE,
              verification_completed_at |-> NULL]
        ELSE t[k]]

\* INSERT INTO verification_codes (...) VALUES (?, type, ?, ?, 0)
CodeRowExhausted(sid, type, hash, expires) ==
    [signature_id |-> sid, code_type |-> type, code_hash |-> hash,
     expires_at |-> expires, attempts |-> 3, verified_at |-> NULL]

CodeRow(sid, type, hash, expires) ==
    [signature_id |-> sid, code_type |-> type, code_hash |-> hash,
     expires_at |-> expires, attempts |-> 0, verified_at |-> NULL]

\* DELETE FROM public_signatures WHERE id = ?
DeleteSignatureAndOlder(t, id) == [k \in {j \in DOMAIN t : j > id} |-> t[k]]

DeleteSignature(t, id) == [k \in DOMAIN t \ {id} |-> t[k]]

\* FOREIGN KEY (signature_id) ... ON DELETE CASCADE
KeepAllCodes(c, id) == c

CascadeDelete(c, id) == {row \in c : row.signature_id # id}

\* SELECT ... FROM verification_codes WHERE signature_id = ? AND code_type IN ('email', 'phone')
SelectCodes(c, id) ==
    {row \in c : row.signature_id = id /\ row.code_type \in {"email", "phone"}}

\* SET attempts = attempts + 1
SetAttemptsAndExpiry(row) == [row EXCEPT !.attempts = @ + 1, !.expires_at = @ + 1]

SetAttempts(row) == [row EXCEPT !.attempts = @ + 1]

\* UPDATE verification_codes SET attempts = attempts + 1 WHERE signature_id = ? ...
IncrementAttemptsSaturating(c, id) ==
    {IF row.signature_id = id /\ row.code_type \in {"email", "phone"}
     THEN [row EXCEPT !.attempts = IF @ < 3 THEN @ + 1 ELSE @] ELSE row : row \in c}

IncrementAttempts(c, id) ==
    {IF row.signature_id = id /\ row.code_type \in {"email", "phone"}
     THEN SetAttempts(row) ELSE row : row \in c}

\* UPDATE verification_codes SET verified_at = CURRENT_TIMESTAMP WHERE signature_id = ? ...
MarkCodesVerified(c, id, t) ==
    {IF row.signature_id = id /\ row.code_type \in {"email", "phone"}
     THEN [row EXCEPT !.verified_at = t] ELSE row : row \in c}

\* UPDATE public_signatures SET email_verified = 1, phone_verified = 1,
\* verification_completed_at = CURRENT_TIMESTAMP WHERE id = ?
MarkSignatureEmailOnly(t, id, at) ==
    [k \in DOMAIN t |->
        IF k = id THEN [t[k] EXCEPT !.email_verified = TRUE] ELSE t[k]]

MarkSignatureVerified(t, id, at) ==
    [k \in DOMAIN t |->
        IF k = id
        THEN [t[k] EXCEPT !.email_verified = TRUE, !.phone_verified = TRUE,
                          !.verification_completed_at = at]
        ELSE t[k]]

Verified(row) == row.email_verified /\ row.phone_verified

\* SELECT id, ... FROM public_signatures WHERE email_verified = 1 AND
\* phone_verified = 1 AND verification_completed_at IS NOT NULL
ListSignatures(t) ==
    {id \in DOMAIN t : /\ t[id].email_verified
                       /\ t[id].phone_verified
                       /\ t[id].verification_completed_at # NULL}

\* SELECT COUNT(*) FROM public_signatures WHERE email_verified = 1 AND phone_verified = 1
CountVerified(t) ==
    Cardinality({id \in DOMAIN t : t[id].email_verified /\ t[id].phone_verified})

----------------------------------------------------------------------------
(* Responses *)

Resp(status, error) == [status |-> status, error |-> error]

NoResp == Resp(0, "")
RateLimited == Resp(429, "Too many requests")
MissingFields == Resp(400, "Missing required fields")
InvalidEmail == Resp(400, "Invalid email format")
InvalidMobile == Resp(400, "Invalid Australian mobile number. Must be 10 digits starting with 04.")
DuplicateIdentityBadRequest == Resp(400, "This email or phone number has already been used to sign")
DuplicateIdentity == Resp(409, "This email or phone number has already been used to sign")
DeliveryFailed == Resp(500, "Failed to send verification codes. Please try again.")
InternalError == Resp(500, "Internal server error")
CodesSent == Resp(200, "")

MissingCodes == Resp(400, "Missing verification codes")
NotFound == Resp(404, "Signature not found")
AlreadyVerifiedSignature == Resp(400, "Signature already verified")
CorruptState == Resp(404, "Verification codes not found")
AlreadyVerifiedCodes == Resp(400, "Already verified")
CodesExpired == Resp(400, "Verification codes have expired")
TooManyAttempts == Resp(400, "Too many failed attempts. Please request new codes.")
InvalidCodes == Resp(400, "Invalid verification codes")
VerifiedOk == Resp(200, "")

\* an exception that leaves the handler: no response of the application
Uncaught == Resp(0, "uncaught exception")

\* the steps of POST /api/signatures inside its try block: reading the body,
\* the rate limiter call, the database statements, and the compensating
\* delete in the catch block of the dispatch
SubmitTryWithoutDelete == {"json", "rateLimiter", "db"}

SubmitTry == {"json", "rateLimiter", "db", "delete"}

\* the steps of POST /api/signatures/:id/verify inside its try block
VerifyTry == {"json", "db"}

\* the response to an exception thrown by a step
Thrown(try, where) == IF where \in try THEN InternalError ELSE Uncaught

EmailOrMobileRequired == Resp(400, "Email or mobile number required")
NamesRequired == Resp(400, "First name and last name are required")
InitialNotFound == Resp(404, "Initial signatory not found")

\* the JSON body of a response of POST /api/signatures
NoBody == [id |-> NULL, message |-> "", error |-> "", details |-> <<>>]

\* throw new Error(`SES API error: ${response.status} - ${errorText}`), and
\* the same for SNS: the text is the gateway's
SesError == "SES API error: 400 - Throttling"
SnsError == "SNS API error: 400 - Throttling"

\* a thrown value: an Error object with its name and message, or a value
\* that is no Error, given by the text String(value) makes of it
ErrorValue(name, message) == [isError |-> TRUE, name |-> name, message |-> message]
NonError(text) == [isError |-> FALSE, name |-> "", message |-> text]

\* no value thrown: the call returned
NoThrown == NonError("")

\* what a dispatch can throw: the Error of the gateway's answer, the
\* TypeError of a fetch that fails, or a value that is no Error
SesApiError == ErrorValue("Error", SesError)
SnsApiError == ErrorValue("Error", SnsError)
FetchFailed == ErrorValue("TypeError", "fetch failed")
ThrownString == NonError("boom")

\* the values the two dispatches throw: those of the gateways' answers only,
\* or all of them
GatewayFailures == [email |-> {SesApiError}, sms |-> {SnsApiError}]
AllFailures == [email |-> {SesApiError, FetchFailed, ThrownString},
                sms |-> {SnsApiError, FetchFailed, ThrownString}]

\* Error.prototype.toString: the name, ": " and the message, or the one of
\* them that is not empty
ErrorToString(e) ==
    IF e.name = "" THEN <<e.message>>
    ELSE IF e.message = "" THEN <<e.name>>
    ELSE <<e.name, ": ", e.message>>

\* c.json({ id: signatureId, message }) with signatureId, emailCode and
\* smsCode in scope
CreatedBodyWithCode(id, emailCode, smsCode) ==
    [NoBody EXCEPT !.id = id, !.message = emailCode]

CreatedBody(id, emailCode, smsCode) ==
    [NoBody EXCEPT !.id = id,
                   !.message = "Verification codes sent to your email and phone"]

\* c.json({ error, details: { message, name, debug } }, 500) for the value
\* caught: message, name and debug in this order
FailedBody(error, caught) ==
    [NoBody EXCEPT !.error = error,
                   !.details = << IF caught.isError THEN caught.message ELSE "Unknown error",
                                  IF caught.isError THEN caught.name ELSE "Error",
                                  IF caught.isError THEN ErrorToString(caught)
                                                    ELSE <<caught.message>> >>]

\* c.json({ error }, status)
ErrorBody(error) == [NoBody EXCEPT !.error = error]

----------------------------------------------------------------------------
(* Ghost: the last answered request of the two handlers *)

NoEvent == [kind |-> "none", resp |-> NoResp, sigId |-> 0,
            emailSend |-> "none", smsSend |-> "none",
            sawDup |-> FALSE, sawEquiv |-> FALSE, trimmed |-> TRUE,
            live |-> FALSE, priorFails |-> 0, correct |-> FALSE,
            attemptsRemaining |-> NULL,
            late |-> FALSE, readEmail |-> NULL, readPhone |-> NULL,
            newEmail |-> NULL, newPhone |-> NULL, peerRead |-> NULL,
            outcome |-> "", count |-> NULL, listed |-> {},
            fieldsOk |-> FALSE, mobile04 |-> FALSE, mobileSpec |-> FALSE,
            body |-> NoBody, genEmail |-> "", genSms |-> "", thrown |-> "",
            emailExists |-> FALSE, mobileExists |-> FALSE, available |-> FALSE,
            wouldReject |-> FALSE, steady |-> FALSE]

----------------------------------------------------------------------------
(* POST /api/signatures *)

NoHash == hashString(<<>>)

IdleSub == [pc |-> "idle", emailHash |-> NoHash, phoneHash |-> NoHash, normHash |-> NoHash,
            sigId |-> 0, expiresAt |-> 0, emailCode |-> "", smsCode |-> "",
            emailSend |-> "none", smsSend |-> "none", sendError |-> NoThrown]

\* the field checks in their order; NoResp when the body passes
ValidateSubmission(name, email, mobile) ==
    IF name = "" \/ email = <<>> \/ mobile = <<>> THEN MissingFields
    ELSE IF ~EmailRegexTest(email) THEN InvalidEmail
    ELSE IF ~MobileShapeOk(StripNonDigits(mobile)) THEN InvalidMobile
    ELSE NoResp

\* Promise.all([sendEmailVerification, sendSmsVerification])
PromiseAllResolvedEmailOnly(e, s) == e = "ok"

PromiseAllResolved(e, s) == e = "ok" /\ s = "ok"

PromiseAllRejectedEarly(e, s) == e # "ok" \/ s # "ok"

PromiseAllRejected(e, s) == e = "failed" \/ s = "failed"

\* the response of a submission and what the request had done by then
SubEvent(q, resp, outcome) ==
    [NoEvent EXCEPT !.kind = "submit", !.resp = resp, !.sigId = q.sigId,
                    !.outcome = outcome,
                    !.genEmail = q.emailCode, !.genSms = q.smsCode,
                    !.body = IF outcome = "created"
                             THEN CreatedBody(q.sigId, q.emailCode, q.smsCode)
                             ELSE IF outcome = "deliveryFailed"
                             THEN FailedBody(resp.error, q.sendError)
                             ELSE ErrorBody(resp.error),
                    !.emailSend = q.emailSend, !.smsSend = q.smsSend]

\* ghost: the identity of an email in the design text, lower-cased and trimmed
NormalisedEmail(email) == hashString(toLowerCase(Trim(email)))

\* ghost: the table holds a row for the normalised email of the body, and
\* name and mobile of the body are acceptable
EquivalentRow(t, b) ==
    /\ b.name # ""
    /\ MobileShapeOk(StripNonDigits(b.mobile))
    /\ \E id \in DOMAIN t : t[id].email_hash = NormalisedEmail(b.email)

\* requests take the first free handler slot
FirstFree(slots, r) ==
    /\ slots[r].pc = "idle"
    /\ \A o \in DOMAIN slots : o < r => slots[o].pc # "idle"

\* the request arrives: the rate limiter is asked, then the fields of the body
\* are validated and the two identities hashed
SubmitRateLimit(r, b) ==
    /\ FirstFree(sub, r)
    /\ nSub' = nSub + 1
    /\ rl' = RLStore(ClientIp)
    /\ LET d == RLDecide(HasData(rl, ClientIp), StorageGet(rl, ClientIp), now)
           bad == ValidateSubmission(b.name, b.email, b.mobile)
           digits == SelectSeq(b.mobile, IsDigit)
           \* ghost: name, email and mobile are given and the email is well
           \* formed; the digits of the mobile are ten and start with "04";
           \* they are ten and match 0[0-9]{9}
           shape == [fieldsOk |-> /\ b.name # "" /\ b.email # <<>> /\ b.mobile # <<>>
                                  /\ EmailRegexTest(b.email),
                     mobile04 |-> /\ Len(digits) = 10
                                  /\ digits[1] = "0" /\ digits[2] = "4",
                     mobileSpec |-> Len(digits) = 10 /\ digits[1] = "0"]
       IN  IF ~d.allowed
           THEN /\ sub' = sub
                /\ last' = SubEvent(IdleSub, RateLimited, "rateLimited")
           ELSE IF bad # NoResp
           THEN /\ sub' = sub
                /\ last' = [SubEvent(IdleSub, bad, "invalid") EXCEPT
                                !.sawEquiv = EquivalentRow(sigs, b),
                                !.trimmed = (Trim(b.email) = b.email),
                                !.fieldsOk = shape.fieldsOk,
                                !.mobile04 = shape.mobile04,
                                !.mobileSpec = shape.mobileSpec]
           ELSE /\ sub' = [sub EXCEPT ![r] =
                              [IdleSub EXCEPT !.pc = "check",
                                              !.emailHash = EmailIdentity(b.email),
                                              !.normHash = NormalisedEmail(b.email),
                                              !.phoneHash = PhoneIdentity(b.mobile)]]
                /\ last' = [NoEvent EXCEPT !.kind = "validated",
                                           !.fieldsOk = shape.fieldsOk,
                                           !.mobile04 = shape.mobile04,
                                           !.mobileSpec = shape.mobileSpec]
    /\ UNCHANGED <<now, win, rlLast, rlReq, rlStarted, sigs, codes, nextId, ver, fails, nVer, oks, countVars, chk>>

\* the duplicate SELECT
SubmitCheck(r) ==
    /\ sub[r].pc = "check"
    /\ LET q == sub[r]
           existing == SelectExisting(sigs, q.emailHash, q.phoneHash)
           dupNow == \E id \in DOMAIN sigs :
                        \/ sigs[id].email_hash = q.emailHash
                        \/ sigs[id].phone_hash = q.phoneHash
           equivNow == \E id \in DOMAIN sigs : sigs[id].email_hash = q.normHash
       IN  IF existing # {}
           THEN /\ sub' = [sub EXCEPT ![r] = IdleSub]
                /\ last' = [SubEvent(q, DuplicateIdentity, "duplicate") EXCEPT
                                !.sawDup = dupNow, !.sawEquiv = equivNow]
           ELSE /\ sub' = [sub EXCEPT ![r].pc = "insertSig"]
                /\ last' = [NoEvent EXCEPT !.kind = "checked", !.sawDup = dupNow,
                                                !.sawEquiv = equivNow]
    /\ UNCHANGED <<now, rlVars, sigs, codes, nextId, ver, fails, nSub, nVer, oks, countVars, chk>>

\* INSERT of the signature row
SubmitInsertSignature(r) ==
    /\ sub[r].pc = "insertSig"
    /\ sigs' = InsertSignature(sigs, nextId, sub[r].emailHash, sub[r].phoneHash)
    /\ nextId' = nextId + 1
    /\ sub' = [sub EXCEPT ![r].pc = "hashCodes", ![r].sigId = nextId,
                          ![r].emailHash = NoHash, ![r].phoneHash = NoHash,
                          ![r].normHash = NoHash]
    /\ UNCHANGED <<now, rlVars, codes, ver, fails, nSub, nVer, oks, countVars, chk>>
    /\ last' = NoEvent

\* the INSERT has returned: both codes are generated, their digests awaited,
\* and the expiry computed from the clock as it is by then
SubmitHashCodes(r, gen) ==
    /\ sub[r].pc = "hashCodes"
    /\ sub' = [sub EXCEPT ![r].pc = "insertEmailCode",
                          ![r].emailCode = gen[1], ![r].smsCode = gen[2],
                          ![r].expiresAt = getCodeExpiryTime(now)]
    /\ UNCHANGED <<now, rlVars, sigs, codes, nextId, ver, fails, nSub, nVer, oks, countVars, chk>>
    /\ last' = NoEvent

\* INSERT of the 'email' code row (the foreign key needs the signature row)
SubmitInsertEmailCode(r) ==
    /\ sub[r].pc = "insertEmailCode"
    /\ IF sub[r].sigId \in DOMAIN sigs
       THEN /\ codes' = codes \cup {CodeRow(sub[r].sigId, "email",
                                            hashCode(sub[r].emailCode), sub[r].expiresAt)}
            /\ sub' = [sub EXCEPT ![r].pc = "insertPhoneCode"]
            /\ last' = NoEvent
       ELSE /\ codes' = codes
            /\ sub' = [sub EXCEPT ![r] = IdleSub]
            /\ last' = SubEvent(sub[r], InternalError, "error")
    /\ UNCHANGED <<now, rlVars, sigs, nextId, ver, fails, nSub, nVer, oks, countVars, chk>>

\* INSERT of the 'phone' code row; then both dispatches are started
SubmitInsertPhoneCode(r) ==
    /\ sub[r].pc = "insertPhoneCode"
    /\ IF sub[r].sigId \in DOMAIN sigs
       THEN /\ codes' = codes \cup {CodeRow(sub[r].sigId, "phone",
                                            hashCode(sub[r].smsCode), sub[r].expiresAt)}
            /\ sub' = [sub EXCEPT ![r].pc = "sending", ![r].emailSend = "pending",
                                  ![r].smsSend = "pending", ![r].expiresAt = 0]
            /\ last' = NoEvent
       ELSE /\ codes' = codes
            /\ sub' = [sub EXCEPT ![r] = IdleSub]
            /\ last' = SubEvent(sub[r], InternalError, "error")
    /\ UNCHANGED <<now, rlVars, sigs, nextId, ver, fails, nSub, nVer, oks, countVars, chk>>

\* the SES call returns (res is NoThrown) or throws the value res;
\* Promise.all rejects with the first value thrown
EmailSettle(r, res) ==
    /\ sub[r].emailSend = "pending"
    /\ sub' = [sub EXCEPT ![r].emailSend = IF res = NoThrown THEN "ok" ELSE "failed",
                          ![r].sendError = IF res = NoThrown \/ @ # NoThrown THEN @ ELSE res]
    /\ UNCHANGED <<now, rlVars, sigs, codes, nextId, ver, fails, nSub, nVer, oks, countVars, chk>>
    /\ last' = NoEvent

\* the SNS call returns (res is NoThrown) or throws the value res
SmsSettle(r, res) ==
    /\ sub[r].smsSend = "pending"
    /\ sub' = [sub EXCEPT ![r].smsSend = IF res = NoThrown THEN "ok" ELSE "failed",
                          ![r].sendError = IF res = NoThrown \/ @ # NoThrown THEN @ ELSE res]
    /\ UNCHANGED <<now, rlVars, sigs, codes, nextId, ver, fails, nSub, nVer, oks, countVars, chk>>
    /\ last' = NoEvent

\* Promise.all resolved: the success response
SubmitRespond(r) ==
    /\ sub[r].pc = "sending"
    /\ PromiseAllResolved(sub[r].emailSend, sub[r].smsSend)
    /\ sub' = [sub EXCEPT ![r] = IdleSub]
    /\ last' = SubEvent(sub[r], CodesSent, "created")
    /\ UNCHANGED <<now, rlVars, sigs, codes, nextId, ver, fails, nSub, nVer, oks, countVars, chk>>

\* Promise.all rejected: the catch block deletes the signature and answers 500
SubmitRollback(r) ==
    /\ sub[r].pc = "sending"
    /\ PromiseAllRejected(sub[r].emailSend, sub[r].smsSend)
    /\ sigs' = DeleteSignature(sigs, sub[r].sigId)
    /\ codes' = CascadeDelete(codes, sub[r].sigId)
    /\ sub' = [sub EXCEPT ![r] = IdleSub]
    /\ last' = [SubEvent(sub[r], DeliveryFailed, "deliveryFailed") EXCEPT !.thrown = "gateway"]
    /\ UNCHANGED <<now, rlVars, nextId, ver, fails, nSub, nVer, oks, countVars, chk>>

\* a database statement of the handler throws: the outer catch answers 500
SubmitThrow(r) ==
    /\ \/ sub[r].pc \in {"check", "insertSig", "insertEmailCode", "insertPhoneCode"}
       \/ /\ sub[r].pc = "sending"
          /\ PromiseAllRejected(sub[r].emailSend, sub[r].smsSend)
    /\ sub' = [sub EXCEPT ![r] = IdleSub]
    /\ LET where == IF sub[r].pc = "sending" THEN "delete" ELSE "db"
       IN  last' = [SubEvent(sub[r], Thrown(SubmitTry, where), "error") EXCEPT
                        !.thrown = where]
    /\ UNCHANGED <<now, rlVars, sigs, codes, nextId, ver, fails, nSub, nVer, oks, countVars, chk>>

\* reading the request body or calling the rate limiter throws
SubmitArriveThrow(r, where) ==
    /\ FirstFree(sub, r)
    /\ nSub' = nSub + 1
    /\ last' = [SubEvent(IdleSub, Thrown(SubmitTry, where), "error") EXCEPT
                    !.thrown = where]
    /\ UNCHANGED <<now, rlVars, sigs, codes, nextId, sub, ver, fails, nVer, oks, countVars, chk>>

----------------------------------------------------------------------------
(* POST /api/signatures/:id/verify *)

IdleVer == [pc |-> "idle", id |-> 0, emailCode |-> "", smsCode |-> "",
            emailAttempts |-> 0, phoneAttempts |-> 0,
            live |-> FALSE, priorFails |-> 0, correct |-> FALSE, late |-> FALSE]

FailsOf(id) == IF id \in DOMAIN fails THEN fails[id].n ELSE 0

\* ghost: the attempts value read by the last request on id answered "Invalid verification codes"
LastFailRead(id) == IF id \in DOMAIN fails THEN fails[id].read ELSE NULL

\* ghost: the stored attempts counter of a code row, NULL without the row
StoredAttempts(c, id, type) ==
    IF \E row \in c : row.signature_id = id /\ row.code_type = type
    THEN (CHOOSE row \in c : row.signature_id = id /\ row.code_type = type).attempts
    ELSE NULL

OksOf(id) == IF id \in DOMAIN oks THEN oks[id] ELSE 0

CodeOfType(rows, type) == CHOOSE row \in rows : row.code_type = type

\* new Date(expires_at) < now
IsExpiredInclusive(row, t) == row.expires_at <= t

IsExpiredNever(row, t) == FALSE

IsExpired(row, t) == row.expires_at < t

\* Math.min(3 - (emailVerification.attempts + 1), 3 - (phoneVerification.attempts + 1)),
\* floored at 0
AttemptsRemainingStale(e, p) == Max(Min(maxAttempts - e, maxAttempts - p), 0)

AttemptsRemaining(e, p) == Max(Min(maxAttempts - (e + 1), maxAttempts - (p + 1)), 0)

AttemptsExhaustedOffByOne(e, p) == e.attempts > maxAttempts \/ p.attempts > maxAttempts

AttemptsExhausted(e, p) == e.attempts >= maxAttempts \/ p.attempts >= maxAttempts

\* codes.results.length === 2 with one row of each type
CodesComplete(rows) ==
    /\ Cardinality(rows) = 2
    /\ \E row \in rows : row.code_type = "email"
    /\ \E row \in rows : row.code_type = "phone"

\* the checks on the code rows in the order of the handler; NoResp when the
\* rows pass and the codes are compared
CodeChecksAttemptsFirst(rows, t) ==
    IF ~CodesComplete(rows) THEN CorruptState
    ELSE LET e == CodeOfType(rows, "email")
             p == CodeOfType(rows, "phone")
         IN  IF e.verified_at # NULL /\ p.verified_at # NULL THEN AlreadyVerifiedCodes
             ELSE IF AttemptsExhausted(e, p) THEN TooManyAttempts
             ELSE IF IsExpired(e, t) \/ IsExpired(p, t) THEN CodesExpired
             ELSE NoResp

CodeChecks(rows, t) ==
    IF ~CodesComplete(rows) THEN CorruptState
    ELSE LET e == CodeOfType(rows, "email")
             p == CodeOfType(rows, "phone")
         IN  IF e.verified_at # NULL /\ p.verified_at # NULL THEN AlreadyVerifiedCodes
             ELSE IF IsExpired(e, t) \/ IsExpired(p, t) THEN CodesExpired
             ELSE IF AttemptsExhausted(e, p) THEN TooManyAttempts
             ELSE NoResp

\* the response of a verification and what the request had seen by then
VerEvent(q, resp) ==
    [NoEvent EXCEPT !.kind = "verify", !.resp = resp, !.sigId = q.id,
                    !.live = q.live, !.priorFails = q.priorFails,
                    !.correct = q.correct, !.late = q.late]

\* ghost: the submitted codes hash to the stored code rows of the signature
CodesMatch(c, id, ec, sc) ==
    /\ \E row \in SelectCodes(c, id) :
            row.code_type = "email" /\ row.code_hash = hashCode(ec)
    /\ \E row \in SelectCodes(c, id) :
            row.code_type = "phone" /\ row.code_hash = hashCode(sc)

\* the request arrives and the signature row is read
VerifyStart(v, id, ec, sc) ==
    /\ FirstFree(ver, v)
    /\ nVer' = nVer + 1
    /\ LET q == [IdleVer EXCEPT !.id = id, !.emailCode = ec, !.smsCode = sc]
       IN  IF ec = "" \/ sc = ""
           THEN ver' = ver /\ last' = VerEvent(q, MissingCodes)
           ELSE IF id \notin DOMAIN sigs
           THEN ver' = ver /\ last' = VerEvent(q, NotFound)
           ELSE IF Verified(sigs[id])
           THEN /\ ver' = ver
                /\ last' = VerEvent([q EXCEPT !.correct = CodesMatch(codes, id, ec, sc)],
                                     AlreadyVerifiedSignature)
           ELSE ver' = [ver EXCEPT ![v] = [q EXCEPT !.pc = "loadCodes"]] /\ last' = NoEvent
    /\ UNCHANGED <<now, rlVars, sigs, codes, nextId, sub, fails, nSub, oks, countVars, chk>>

\* the code rows are read and all checks up to the comparison are made
VerifyLoadCodes(v) ==
    /\ ver[v].pc = "loadCodes"
    /\ LET q == ver[v]
           rows == SelectCodes(codes, q.id)
           complete == CodesComplete(rows)
           failed == CodeChecks(rows, now)
           e == CodeOfType(rows, "email")
           p == CodeOfType(rows, "phone")
           emailValid == e.code_hash = hashCode(q.emailCode)
           phoneValid == p.code_hash = hashCode(q.smsCode)
           \* ghost: the request found live codes (both rows, not both
           \* verified, not expired), the failed requests that preceded it,
           \* whether it carries the right codes
           \* ghost: both rows were found, not both marked verified, and
           \* the request is processed later than their expiry time
           late == /\ complete
                   /\ ~(e.verified_at # NULL /\ p.verified_at # NULL)
                   /\ (now > e.expires_at \/ now > p.expires_at)
           x == [q EXCEPT !.late = late, !.correct = (emailValid /\ phoneValid)]
           g == [q EXCEPT !.emailCode = "", !.smsCode = "", !.live = TRUE,
                          !.late = late,
                          !.priorFails = FailsOf(q.id),
                          !.correct = (emailValid /\ phoneValid)]
       IN  IF failed \in {CorruptState, AlreadyVerifiedCodes}
           THEN ver' = [ver EXCEPT ![v] = IdleVer] /\ last' = VerEvent(q, failed)
           ELSE IF failed = CodesExpired
           THEN ver' = [ver EXCEPT ![v] = IdleVer] /\ last' = VerEvent(x, failed)
           ELSE IF failed = TooManyAttempts
           THEN ver' = [ver EXCEPT ![v] = IdleVer] /\ last' = VerEvent(g, failed)
           ELSE IF ~emailValid \/ ~phoneValid
           THEN /\ ver' = [ver EXCEPT ![v] = [g EXCEPT !.pc = "increment",
                                                      !.emailAttempts = e.attempts,
                                                      !.phoneAttempts = p.attempts]]
                /\ last' = NoEvent
           ELSE /\ ver' = [ver EXCEPT ![v] = [g EXCEPT !.pc = "markCodes"]]
                /\ last' = NoEvent
    /\ UNCHANGED <<now, rlVars, sigs, codes, nextId, sub, fails, nSub, nVer, oks, countVars, chk>>

\* a comparison failed: both counters are incremented
VerifyIncrement(v) ==
    /\ ver[v].pc = "increment"
    /\ codes' = IncrementAttempts(codes, ver[v].id)
    /\ fails' = StoragePut(fails, ver[v].id,
                            [n |-> FailsOf(ver[v].id) + 1, read |-> ver[v].emailAttempts])
    /\ ver' = [ver EXCEPT ![v] = IdleVer]
    /\ last' = [VerEvent(ver[v], InvalidCodes) EXCEPT
                    !.attemptsRemaining =
                        AttemptsRemaining(ver[v].emailAttempts, ver[v].phoneAttempts),
                    !.readEmail = ver[v].emailAttempts,
                    !.readPhone = ver[v].phoneAttempts,
                    !.newEmail = StoredAttempts(codes', ver[v].id, "email"),
                    !.newPhone = StoredAttempts(codes', ver[v].id, "phone"),
                    !.peerRead = LastFailRead(ver[v].id)]
    /\ UNCHANGED <<now, rlVars, sigs, nextId, sub, nSub, nVer, oks, countVars, chk>>

\* both comparisons succeeded: the code rows are marked
VerifyMarkCodes(v) ==
    /\ ver[v].pc = "markCodes"
    /\ codes' = MarkCodesVerified(codes, ver[v].id, now)
    /\ ver' = [ver EXCEPT ![v].pc = "markSig"]
    /\ UNCHANGED <<now, rlVars, sigs, nextId, sub, fails, nSub, nVer, oks, countVars, chk>>
    /\ last' = NoEvent

\* the signature row is marked and the success response sent
VerifyMarkSignature(v) ==
    /\ ver[v].pc = "markSig"
    /\ sigs' = MarkSignatureVerified(sigs, ver[v].id, now)
    /\ oks' = StoragePut(oks, ver[v].id, OksOf(ver[v].id) + 1)
    /\ ver' = [ver EXCEPT ![v] = IdleVer]
    /\ last' = VerEvent(ver[v], VerifiedOk)
    /\ UNCHANGED <<now, rlVars, codes, nextId, sub, fails, nSub, nVer, countVars, chk>>

\* a database statement of the handler throws: the catch answers 500
VerifyThrow(v) ==
    /\ ver[v].pc \in {"loadCodes", "increment", "markCodes", "markSig"}
    /\ ver' = [ver EXCEPT ![v] = IdleVer]
    /\ last' = [VerEvent(ver[v], Thrown(VerifyTry, "db")) EXCEPT !.thrown = "db"]
    /\ UNCHANGED <<now, rlVars, sigs, codes, nextId, sub, fails, nSub, nVer, oks, countVars, chk>>

\* reading the request body or the SELECT of the signature row throws
VerifyArriveThrow(v, id, where) ==
    /\ FirstFree(ver, v)
    /\ nVer' = nVer + 1
    /\ last' = [VerEvent([IdleVer EXCEPT !.id = id], Thrown(VerifyTry, where)) EXCEPT
                    !.thrown = where]
    /\ UNCHANGED <<now, rlVars, sigs, codes, nextId, sub, ver, fails, nSub, oks, countVars, chk>>

----------------------------------------------------------------------------
(* DELETE /api/admin/signatures/:id *)

AdminDelete(id) ==
    /\ id \in DOMAIN sigs
    /\ sigs' = DeleteSignature(sigs, id)
    /\ codes' = CascadeDelete(codes, id)
    /\ UNCHANGED <<now, rlVars, nextId, sub, ver, fails, nSub, nVer, oks, countVars, chk>>
    /\ last' = NoEvent

AppTickBy(deltas) ==
    /\ \E d \in deltas : Tick(d, MaxClock)
    /\ last' = NoEvent
    /\ UNCHANGED rlVars
    /\ UNCHANGED <<sigs, codes, nextId, sub, ver, fails, nSub, nVer, oks, countVars, chk>>

----------------------------------------------------------------------------
(* GET /api/signatures and GET /api/signatures/count *)

\* POST /api/signatures/check: the body is read, then the SELECT on the
\* verified rows of the email and the SELECT on those of the mobile are
\* awaited one after the other, each only for a field that is given
IdleChk == [pc |-> "idle", email |-> <<>>, mobile |-> <<>>, emailExists |-> FALSE,
            selected |-> FALSE, seen |-> [k \in {} |-> 0]]

\* return c.json({ emailExists, mobileExists, available }); the ghost
\* wouldReject tells whether the duplicate SELECT of a submission of these
\* fields finds a row in this state of the table, and the ghost steady
\* whether the table is the one the first SELECT of the request read
CheckEvent(q, emailExists, mobileExists) ==
    [NoEvent EXCEPT !.kind = "check", !.resp = Resp(200, ""),
                    !.emailExists = emailExists,
                    !.mobileExists = mobileExists,
                    !.available = ~emailExists /\ ~mobileExists,
                    !.fieldsOk = ValidateSubmission("n", q.email, q.mobile) = NoResp,
                    !.wouldReject = SelectExisting(sigs, EmailIdentity(q.email),
                                                   PhoneIdentity(q.mobile)) # {},
                    !.steady = (q.selected => q.seen = sigs)]

\* the request arrives: 400 when neither field is given
SignaturesCheck(email, mobile) ==
    /\ chk.pc = "idle"
    /\ IF email = <<>> /\ mobile = <<>>
       THEN /\ chk' = chk
            /\ last' = [NoEvent EXCEPT !.kind = "check", !.resp = EmailOrMobileRequired]
       ELSE /\ chk' = [IdleChk EXCEPT !.pc = IF email # <<>> THEN "email" ELSE "mobile",
                                      !.email = email, !.mobile = mobile]
            /\ last' = NoEvent
    /\ UNCHANGED <<now, rlVars, sigs, codes, nextId, sub, ver, fails, nSub, nVer, oks, countVars>>

\* the SELECT on the email; it is the last statement when no mobile is given
CheckSelectEmail ==
    /\ chk.pc = "email"
    /\ LET emailExists == SelectVerifiedEmail(sigs, EmailIdentity(chk.email)) # {}
       IN  IF chk.mobile = <<>>
           THEN /\ chk' = IdleChk
                /\ last' = CheckEvent(chk, emailExists, FALSE)
           ELSE /\ chk' = [chk EXCEPT !.pc = "mobile", !.emailExists = emailExists,
                                      !.selected = TRUE, !.seen = sigs]
                /\ last' = NoEvent
    /\ UNCHANGED <<now, rlVars, sigs, codes, nextId, sub, ver, fails, nSub, nVer, oks, countVars>>

\* the SELECT on the mobile, and the response
CheckSelectMobile ==
    /\ chk.pc = "mobile"
    /\ chk' = IdleChk
    /\ last' = CheckEvent(chk, chk.emailExists,
                          SelectVerifiedPhone(sigs, PhoneIdentity(chk.mobile)) # {})
    /\ UNCHANGED <<now, rlVars, sigs, codes, nextId, sub, ver, fails, nSub, nVer, oks, countVars>>

\* reading the body or a SELECT throws: the catch answers 500
CheckThrow ==
    /\ chk' = IdleChk
    /\ last' = [NoEvent EXCEPT !.kind = "check", !.resp = InternalError,
                               !.thrown = IF chk.pc = "idle" THEN "json" ELSE "db"]
    /\ UNCHANGED <<now, rlVars, sigs, codes, nextId, sub, ver, fails, nSub, nVer, oks, countVars>>

\* the list of verified signatures is read and returned
GetSignatures ==
    /\ last' = [NoEvent EXCEPT !.kind = "list", !.resp = Resp(200, ""),
                               !.listed = ListSignatures(sigs)]
    /\ UNCHANGED <<now, rlVars, sigs, codes, nextId, sub, ver, fails, nSub, nVer, oks, countVars, chk>>

IdleCnt == [pc |-> "idle", publicCount |-> 0]

\* const totalCount = publicCount + initialCount
totalCount(publicCount, initialCount) == publicCount + initialCount

\* the first SELECT: verified public signatures are counted
CountPublic ==
    /\ cnt.pc = "idle"
    /\ cnt' = [pc |-> "initial", publicCount |-> CountVerified(sigs)]
    /\ last' = NoEvent
    /\ UNCHANGED <<now, rlVars, sigs, codes, nextId, sub, ver, fails, nSub, nVer, oks, initial, chk>>

\* the second SELECT: initial signatories are counted, and the sum returned
CountInitial ==
    /\ cnt.pc = "initial"
    /\ cnt' = IdleCnt
    /\ last' = [NoEvent EXCEPT !.kind = "count", !.resp = Resp(200, ""),
                               !.count = totalCount(cnt.publicCount, initial)]
    /\ UNCHANGED <<now, rlVars, sigs, codes, nextId, sub, ver, fails, nSub, nVer, oks, initial, chk>>

----------------------------------------------------------------------------
(* POST and DELETE /api/admin/initial-signatories *)

MaxInitial == 2

InitialNames == {<<"Ada", "Lovelace">>, <<"", "Lovelace">>, <<"Ada", "">>}

\* INSERT INTO initial_signatories, when first and last name are given
AdminCreateInitial(first_name, last_name) ==
    /\ initial < MaxInitial
    /\ IF first_name = "" \/ last_name = ""
       THEN /\ initial' = initial
            /\ last' = [NoEvent EXCEPT !.kind = "admin", !.resp = NamesRequired]
       ELSE /\ initial' = initial + 1
            /\ last' = [NoEvent EXCEPT !.kind = "admin", !.resp = Resp(200, "")]
    /\ UNCHANGED <<now, rlVars, sigs, codes, nextId, sub, ver, fails, nSub, nVer, oks, cnt, chk>>

\* DELETE FROM initial_signatories WHERE id = ?; 404 when no row was deleted
AdminDeleteInitial(found) ==
    /\ found => initial > 0
    /\ initial' = IF found THEN initial - 1 ELSE initial
    /\ last' = [NoEvent EXCEPT !.kind = "admin",
                               !.resp = IF found THEN Resp(200, "") ELSE InitialNotFound]
    /\ UNCHANGED <<now, rlVars, sigs, codes, nextId, sub, ver, fails, nSub, nVer, oks, cnt, chk>>

----------------------------------------------------------------------------
(* Specifications *)

EmptyMap == [k \in {} |-> NoData]

Init ==
    /\ now = 0
    /\ rl = EmptyMap
    /\ win = [k \in {} |-> NoWin]
    /\ rlLast = NoLast
    /\ rlReq = [p \in RLProcs |-> IdleReq]
    /\ rlStarted = 0
    /\ sigs = [k \in {} |-> 0]
    /\ codes = {}
    /\ nextId = 1
    /\ sub = [r \in SubReqs |-> IdleSub]
    /\ ver = [v \in VerReqs |-> IdleVer]
    /\ fails = [k \in {} |-> 0]
    /\ last = NoEvent
    /\ nSub = 0
    /\ nVer = 0
    /\ oks = [k \in {} |-> 0]
    /\ initial = 0
    /\ cnt = IdleCnt
    /\ chk = IdleChk

NextRL ==
    \/ \E key \in Keys : RLRequest(key)
    \/ RLTick

SpecRL == Init /\ [][NextRL]_vars

NextRLConc ==
    \/ \E p \in RLProcs, key \in Keys : RLArrive(p, key)
    \/ \E p \in RLProcs : InputGate(p) /\ RLStart(p)
    \/ \E p \in RLProcs : RLGet(p)
    \/ \E p \in RLProcs : RLPut(p)
    \/ ConcTick

SpecRLConc == Init /\ [][NextRLConc]_vars

\* the handlers, with the number of requests, of rows and of concurrent
\* handlers bounded
Handlers(subSlots, verSlots, bodies, gens, thrown, maxSub, maxVer, maxSigs) ==
    \/ \E r \in subSlots, b \in bodies : nSub < maxSub /\ SubmitRateLimit(r, b)
    \/ \E r \in subSlots : SubmitCheck(r)
    \/ \E r \in subSlots : nextId <= maxSigs /\ SubmitInsertSignature(r)
    \/ \E r \in subSlots, gen \in gens : SubmitHashCodes(r, gen)
    \/ \E r \in subSlots : SubmitInsertEmailCode(r)
    \/ \E r \in subSlots : SubmitInsertPhoneCode(r)
    \/ \E r \in subSlots, res \in {NoThrown} \cup thrown.email : EmailSettle(r, res)
    \/ \E r \in subSlots, res \in {NoThrown} \cup thrown.sms : SmsSettle(r, res)
    \/ \E r \in subSlots : SubmitRespond(r)
    \/ \E r \in subSlots : SubmitRollback(r)
    \/ \E v \in verSlots, id \in 1..maxSigs, ec \in SubmittedCodes, sc \in SubmittedCodes :
            nVer < maxVer /\ VerifyStart(v, id, ec, sc)
    \/ \E v \in verSlots : VerifyLoadCodes(v)
    \/ \E v \in verSlots : VerifyIncrement(v)
    \/ \E v \in verSlots : VerifyMarkCodes(v)
    \/ \E v \in verSlots : VerifyMarkSignature(v)

\* database statements that throw, and the administrator deleting rows
Faults(subSlots, verSlots, maxSub, maxVer, maxSigs) ==
    \/ \E r \in subSlots : SubmitThrow(r)
    \/ \E v \in verSlots : VerifyThrow(v)
    \/ \E r \in subSlots, where \in {"json", "rateLimiter"} :
            nSub < maxSub /\ SubmitArriveThrow(r, where)
    \/ \E v \in verSlots, id \in 1..maxSigs, where \in {"json", "db"} :
            nVer < maxVer /\ VerifyArriveThrow(v, id, where)
    \/ \E id \in 1..maxSigs : AdminDelete(id)

\* concurrent submissions, verifications one at a time
Next ==
    Handlers(SubReqs, {1}, Bodies, {<<"123456", "654321">>}, GatewayFailures,
             MaxSubmits, MaxVerifies, MaxSigs)

Spec == Init /\ [][Next]_vars

\* one signature, concurrent verifications
NextVerify ==
    \/ Handlers({1}, VerReqs, {Body("Jane Doe", EmailJane, MobileA)}, {<<"123456", "654321">>},
                GatewayFailures, 1, MaxAttemptsTried, 1)
    \/ Faults({1}, VerReqs, 1, MaxAttemptsTried, 1)
    \/ AppTickBy(Deltas)

SpecVerify == Init /\ [][NextVerify]_vars

\* one signature, the public read endpoints and the initial signatories
NextCount ==
    \/ Handlers({1}, {1}, {Body("Jane Doe", EmailJane, MobileA)}, {<<"123456", "654321">>},
                GatewayFailures, 1, MaxVerifies, 1)
    \/ GetSignatures
    \/ CountPublic
    \/ CountInitial
    \/ \E n \in InitialNames : AdminCreateInitial(n[1], n[2])
    \/ \E found \in BOOLEAN : AdminDeleteInitial(found)

SpecCount == Init /\ [][NextCount]_vars

\* submissions one at a time from one address, enough of them to exhaust
\* the rate limiter window
NextStatus ==
    \/ Handlers({1}, {1},
                {Body("Jane Doe", EmailJane, MobileA), Body("Jane Doe", EmailJaneLower, MobileB),
                 Body("Kim", EmailNoDot, MobileB), Body("Kim", EmailKim, MobileShort),
                 Body("", EmailKim, MobileB),
                 Body("Kim", EmailFormFeed, MobileB),
                 Body("Ada", EmailDotted, MobileA), Body("Ada", EmailDottedLower, MobileB)},
                {<<"123456", "654321">>}, AllFailures, MaxStatusSubmits, 1, 1)
    \/ Faults({1}, {1}, MaxStatusSubmits, 1, 1)

SpecStatus == Init /\ [][NextStatus]_vars

\* one identity submitted twice, one request at a time, with the
\* administrator's delete and the clock
NextRecover ==
    \/ Handlers({1}, {1}, {Body("Jane Doe", EmailJane, MobileA)}, GenCodePairs,
                AllFailures, 2, MaxRecoverVerifies, 2)
    \/ \E id \in 1..2 : AdminDelete(id)
    \/ AppTickBy(Deltas)

SpecRecover == Init /\ [][NextRecover]_vars

\* submissions one at a time that share an email or a mobile, verifications
\* and the clock passing the expiry of the codes; no administrator
NextPending ==
    \/ Handlers({1}, {1},
                {Body("Jane Doe", EmailJane, MobileA), Body("Jane Doe", EmailJaneLower, MobileB),
                 Body("Kim", EmailKim, MobileASpaced)},
                {<<"123456", "654321">>}, GatewayFailures,
                MaxPendingSubmits, MaxPendingVerifies, 2)
    \/ AppTickBy({600001})

SpecPending == Init /\ [][NextPending]_vars

\* one submission, its verification, the administrator's delete and the
\* availability check
NextCheck ==
    \/ Handlers({1}, {1}, {Body("Jane Doe", EmailJane, MobileA)}, {<<"123456", "654321">>},
                GatewayFailures, 1, MaxVerifies, 1)
    \/ \E email \in {<<>>, EmailJaneLower, EmailKim}, mobile \in {<<>>, MobileASpaced, MobileB} :
            SignaturesCheck(email, mobile)
    \/ CheckSelectEmail
    \/ CheckSelectMobile
    \/ CheckThrow
    \/ AdminDelete(1)

SpecCheck == Init /\ [][NextCheck]_vars

----------------------------------------------------------------------------
(* Rate limiter properties *)

\* C6: with requests handled one at a time and a clock that never goes back,
\* a stored window record always has 1 <= count <= 5, and at most 5 requests
\* are answered allowed between the creation of a window and the first
\* request that arrives after its resetTime.
C6_CountWithinWindow ==
    /\ \A k \in DOMAIN rl : 1 <= rl[k].count /\ rl[k].count <= 5
    /\ \A k \in DOMAIN win : win[k].n <= 5
    /\ \A k \in DOMAIN rl :
          k \in DOMAIN win /\ win[k].start + 60000 = rl[k].resetTime

C6_Witness ==
    /\ rlLast.key \in DOMAIN rl
    /\ ~rlLast.allowed
    /\ rl[rlLast.key].count = 5
    /\ win[rlLast.key].n = 5

\* C7: once five requests were allowed in a window, a request arriving up to
\* 60 s after the first one is answered allowed = false with status 429; a
\* request arriving 61 s or more after the first one is allowed and stores a
\* fresh window with count = 1 and resetTime = its arrival time + 60 s.
C7_SixthRequest ==
    (rlLast.key # "" /\ rlLast.seen.n = 5) =>
        /\ rlLast.at <= rlLast.seen.start + 60000 =>
              (~rlLast.allowed /\ rlLast.status = 429)
        /\ rlLast.at >= rlLast.seen.start + 61000 =>
              /\ rlLast.allowed
              /\ rl[rlLast.key] = [count |-> 1, resetTime |-> rlLast.at + 60000]
              /\ win[rlLast.key] = [start |-> rlLast.at, n |-> 1]

C7_Witness ==
    /\ rlLast.key # ""
    /\ rlLast.seen.n = 5
    /\ rlLast.at = rlLast.seen.start + 61000
    /\ rlLast.allowed

\* C8: with several requests for one key in flight at once, at most 5
\* requests of one window are answered allowed and the stored count stays
\* within 1..5: with the requests of one key delivered one at a time no
\* update is lost, because a fetch that has read the record of its key
\* decides on the record as it is still stored.
C8_AtMostFiveInFlight ==
    /\ \A k \in DOMAIN win : win[k].n <= maxRequests
    /\ \A k \in DOMAIN rl : 1 <= rl[k].count /\ rl[k].count <= maxRequests
    /\ \A p \in RLProcs :
          rlReq[p].pc = "got" =>
              /\ rlReq[p].had = HasData(rl, rlReq[p].key)
              /\ rlReq[p].data = StorageGet(rl, rlReq[p].key)

\* a sixth request of the window has read count = 5 while another request
\* for the same key waits at the object
C8_Witness ==
    \E p \in RLProcs, q \in RLProcs :
        /\ rlReq[p].pc = "got"
        /\ rlReq[q].pc = "queued"
        /\ rlReq[q].key = rlReq[p].key
        /\ rlReq[p].data.count = maxRequests
        /\ rlReq[p].at <= rlReq[p].data.resetTime
        /\ win[rlReq[p].key].n = maxRequests

\* C9: a rejected request writes nothing: the key's record keeps its count
\* and its resetTime.
C9_RejectLeavesWindow ==
    (rlLast.key # "" /\ ~rlLast.allowed) =>
        /\ rlLast.had
        /\ rlLast.key \in DOMAIN rl
        /\ rl[rlLast.key] = rlLast.prev

C9_Witness ==
    /\ rlLast.key # ""
    /\ ~rlLast.allowed
    /\ rlLast.at > rlLast.seen.start
    /\ rl[rlLast.key].count = 5

----------------------------------------------------------------------------
(* Submission properties *)

\* C1 as stated: no two signatures with both flags true share an emailHash
\* or a phoneHash, also when submissions for one identity interleave between
\* the duplicate SELECT and the INSERT.
C1_UniqueVerifiedIdentity ==
    \A a \in DOMAIN sigs, b \in DOMAIN sigs :
        (a # b /\ Verified(sigs[a]) /\ Verified(sigs[b])) =>
            /\ sigs[a].email_hash # sigs[b].email_hash
            /\ sigs[a].phone_hash # sigs[b].phone_hash

\* C2: a submission that passed the rate limiter and the field validation and
\* whose emailHash or phoneHash is that of a row present at the duplicate
\* SELECT is answered DuplicateIdentity and inserts neither a signature row
\* nor a code row.
C2_DuplicateRejected ==
    /\ [](last.sawDup =>
            (last.kind = "submit" /\ last.resp = DuplicateIdentity /\ last.sigId = 0))
    /\ [][last'.sawDup => (sigs' = sigs /\ codes' = codes /\ nextId' = nextId)]_vars

C2_Witness ==
    /\ last.kind = "submit"
    /\ last.sawDup
    /\ last.resp = DuplicateIdentity
    /\ \E id \in DOMAIN sigs : ~Verified(sigs[id])

\* C3 as stated: a submission whose email equals that of a stored signature
\* up to letter case and surrounding whitespace is answered DuplicateIdentity.
C3_EquivalentEmailIsDuplicate ==
    last.sawEquiv => (last.kind = "submit" /\ last.resp = DuplicateIdentity)

\* C3 amended: such a submission is answered DuplicateIdentity when its email
\* has no surrounding whitespace (it differs in letter case only), and is
\* answered "Invalid email format" by the field validation, before the
\* duplicate check, when it has; either way it inserts nothing.
C3_CaseDuplicateWhitespaceInvalid ==
    last.sawEquiv =>
        /\ last.kind = "submit"
        /\ last.sigId = 0
        /\ last.trimmed => last.resp = DuplicateIdentity
        /\ ~last.trimmed => last.resp = InvalidEmail

C3_Witness ==
    /\ last.kind = "submit"
    /\ last.sawEquiv
    /\ ~last.trimmed
    /\ last.resp = InvalidEmail

\* C4: when a dispatch failed and the request answered DeliveryFailed, the
\* signature row the request created is gone and no code row carries its id;
\* ids are never reused, so the row does not come back.
C4_RollbackRemovesRows ==
    /\ (last.kind = "submit" /\ last.resp = DeliveryFailed) =>
            /\ last.sigId # 0
            /\ last.sigId \notin DOMAIN sigs
            /\ \A row \in codes : row.signature_id # last.sigId
    /\ \A id \in DOMAIN sigs : id < nextId

C4_Witness ==
    /\ last.kind = "submit"
    /\ last.resp = DeliveryFailed
    /\ last.emailSend = "failed"
    /\ last.smsSend = "ok"
    /\ sigs # << >>

\* C5 as stated: the compensating delete and every response after the
\* dispatches happen only once both dispatches have settled.
C5_WaitsForBothDispatches ==
    (last.kind = "submit" /\ last.resp \in {CodesSent, DeliveryFailed}) =>
        (last.emailSend # "pending" /\ last.smsSend # "pending")

\* C5 amended: the success response happens only after both dispatches
\* succeeded; the delete and the DeliveryFailed response happen only after a
\* dispatch has failed, the other one possibly still in flight.
C5_RespondsAfterOutcomeKnown ==
    /\ (last.kind = "submit" /\ last.resp = CodesSent) =>
            (last.emailSend = "ok" /\ last.smsSend = "ok")
    /\ (last.kind = "submit" /\ last.resp = DeliveryFailed) =>
            (last.emailSend = "failed" \/ last.smsSend = "failed")

C5_Witness ==
    /\ last.kind = "submit"
    /\ last.resp = DeliveryFailed
    /\ last.emailSend = "failed"
    /\ last.smsSend = "pending"

\* C20 (as stated): the HTTP status of a POST /api/signatures response is
\* 201 when the signature is created and both codes are dispatched, 400 for
\* invalid input and for a duplicate identity, 429 when rate limited and 500
\* on delivery failure.
C20_StatusByOutcome ==
    last.kind = "submit" =>
        /\ last.outcome = "created" => last.resp.status = 201
        /\ last.outcome \in {"invalid", "duplicate"} => last.resp.status = 400
        /\ last.outcome = "rateLimited" => last.resp.status = 429
        /\ last.outcome = "deliveryFailed" => last.resp.status = 500

\* C20 (as the handler behaves): the HTTP status of a POST /api/signatures
\* response is 200 when the signature is created and both codes are
\* dispatched, 400 for invalid input, 409 for a duplicate identity, 429 when
\* rate limited, and 500 on delivery failure and on any other exception.
C20_StatusByOutcomeAsCoded ==
    last.kind = "submit" =>
        /\ last.outcome \in {"created", "invalid", "duplicate", "rateLimited",
                              "deliveryFailed", "error"}
        /\ last.outcome = "created" =>
              /\ last.resp.status = 200
              /\ last.emailSend = "ok" /\ last.smsSend = "ok"
              /\ last.sigId >= 1
        /\ last.outcome = "invalid" => last.resp.status = 400 /\ last.sigId = 0
        /\ last.outcome = "duplicate" => last.resp.status = 409 /\ last.sawDup
        /\ last.outcome = "rateLimited" =>
              /\ last.resp.status = 429
              /\ ClientIp \in DOMAIN rl /\ rl[ClientIp].count = 5
        /\ last.outcome = "deliveryFailed" =>
              /\ last.resp.status = 500
              /\ (last.emailSend = "failed" \/ last.smsSend = "failed")
        /\ last.outcome = "error" => last.resp.status = 500

C20_Witness ==
    /\ last.kind = "submit"
    /\ last.outcome = "rateLimited"
    /\ last.resp.status = 429
    /\ \E id \in DOMAIN sigs : Verified(sigs[id])

C20_WitnessCreated ==
    /\ last.kind = "submit"
    /\ last.outcome = "created"
    /\ last.resp.status = 200

C20_WitnessDuplicate ==
    /\ last.kind = "submit"
    /\ last.outcome = "duplicate"
    /\ last.resp.status = 409

\* C21 (as stated): a mobile value is accepted by submission validation
\* exactly when its digits are ten and match 0[0-9]{9}.
C21_MobileAcceptedIffPattern ==
    (last.kind \in {"validated", "submit"} /\ last.fieldsOk) =>
        (last.kind = "validated" <=> last.mobileSpec)

\* C21 (as the handler behaves): of a submission that passed the rate limiter
\* with name and email acceptable, the mobile value is accepted exactly when,
\* after removing all non-digit characters, it has exactly 10 digits and
\* starts with "04"; every other mobile value is answered 400 "Invalid
\* Australian mobile number" and no row is inserted.
C21_MobileAcceptedIff04 ==
    /\ []((last.kind \in {"validated", "submit"} /\ last.fieldsOk) =>
            /\ last.kind = "validated" <=> last.mobile04
            /\ last.kind = "submit" =>
                  /\ last.resp = InvalidMobile
                  /\ last.resp.status = 400
                  /\ last.sigId = 0)
    /\ [][(last'.kind = "submit" /\ last'.fieldsOk) =>
            (sigs' = sigs /\ codes' = codes /\ nextId' = nextId)]_vars

C21_Witness ==
    /\ last.kind = "submit"
    /\ last.fieldsOk
    /\ last.mobileSpec
    /\ ~last.mobile04
    /\ last.resp = InvalidMobile

C21_WitnessAccepted ==
    /\ last.kind = "validated"
    /\ last.mobile04
    /\ \E r \in DOMAIN sub : sub[r].phoneHash = hashString(MobileA)

\* C22: no response of POST /api/signatures contains the generated email
\* code or SMS code, on success or on any failure path, the details of the
\* delivery-failure response included; the body is fixed by the outcome, the
\* signature id and the value thrown by the dispatch (the Error of the
\* gateway's answer, the TypeError of a failed fetch, or a value that is no
\* Error), so two requests that differ only in the generated codes are
\* answered alike apart from the id.
C22_NoCodeInResponse ==
    last.kind = "submit" =>
        /\ \A code \in {last.genEmail, last.genSms} \ {""} :
              /\ last.body.message # code
              /\ last.body.error # code
              /\ last.body.details # <<>> =>
                    /\ last.body.details[1] # code
                    /\ last.body.details[2] # code
                    /\ \A k \in DOMAIN last.body.details[3] :
                          last.body.details[3][k] # code
              /\ last.resp.error # code
        /\ last.outcome = "created" =>
              last.body = [id |-> last.sigId,
                           message |-> "Verification codes sent to your email and phone",
                           error |-> "", details |-> <<>>]
        /\ last.outcome = "deliveryFailed" =>
              /\ last.body.id = NULL /\ last.body.message = ""
              /\ last.body.error = "Failed to send verification codes. Please try again."
              /\ \/ /\ last.body.details[1] \in {SesError, SnsError}
                    /\ last.body.details[2] = "Error"
                    /\ last.body.details[3] = <<"Error", ": ", last.body.details[1]>>
                 \/ last.body.details = <<"fetch failed", "TypeError",
                                           <<"TypeError", ": ", "fetch failed">> >>
                 \/ last.body.details = <<"Unknown error", "Error", <<"boom">> >>
        /\ last.outcome \notin {"created", "deliveryFailed"} =>
              last.body = [id |-> NULL, message |-> "", error |-> last.resp.error,
                           details |-> <<>>]

C22_Witness ==
    /\ last.kind = "submit"
    /\ last.outcome = "deliveryFailed"
    /\ last.genEmail = "654321"
    /\ last.genSms = "123456"
    /\ last.body.details[1] = SnsError
    /\ last.emailSend = "failed"

C22_WitnessTypeError ==
    /\ last.kind = "submit"
    /\ last.outcome = "deliveryFailed"
    /\ last.genEmail = "654321"
    /\ last.body.details[2] = "TypeError"
    /\ last.smsSend = "failed"

C22_WitnessNoError ==
    /\ last.kind = "submit"
    /\ last.outcome = "deliveryFailed"
    /\ last.body.details = <<"Unknown error", "Error", <<"boom">> >>

C22_WitnessCreated ==
    /\ last.kind = "submit"
    /\ last.outcome = "created"
    /\ last.genEmail = "123456"
    /\ last.body.id = 1

\* C23: every answered request of POST /api/signatures and of
\* POST /api/signatures/:id/verify carries a JSON response with an HTTP
\* status; when a step throws (reading the body, the rate limiter call, a
\* database statement, a delivery gateway, the compensating delete of the
\* delivery-failure handler) the exception is caught, the answer is a 500
\* with an error text, and the request has ended.
C23_ExceptionsCaught ==
    last.kind \in {"submit", "verify"} =>
        /\ last.resp # Uncaught
        /\ last.resp.status \in {200, 400, 404, 409, 429, 500}
        /\ last.thrown # "" =>
              /\ last.resp.status = 500
              /\ last.resp.error # ""
              /\ last.kind = "submit" => last.body.error = last.resp.error
        /\ (last.kind = "submit" /\ last.sigId >= 1) =>
              \A r \in DOMAIN sub : sub[r].sigId # last.sigId

C23_Witness ==
    /\ last.kind = "submit"
    /\ last.thrown = "delete"
    /\ last.resp = InternalError
    /\ last.sigId \in DOMAIN sigs

C23_WitnessVerify ==
    /\ last.kind = "verify"
    /\ last.thrown = "db"
    /\ last.resp = InternalError
    /\ \E row \in codes : row.verified_at # NULL
    /\ ~Verified(sigs[last.sigId])

\* C24: a signature that is gone (deleted by the administrator after its
\* codes expired or its attempts were exhausted) takes its code rows with it;
\* a following submission with the same email and mobile is not a duplicate
\* when no row holds the identity, it creates a pending signature under a new
\* id whose code rows start with attempts = 0, no verified_at and the expiry
\* this submission computed, and a request with the right codes for a pending
\* signature with live codes and fewer than three failures of its own
\* verifies it.
C24_DeleteThenResubmit ==
    /\ [][\A gone \in DOMAIN sigs \ DOMAIN sigs' :
            \A row \in codes' : row.signature_id # gone]_vars
    /\ [][\A new \in DOMAIN sigs' \ DOMAIN sigs :
            /\ new = nextId /\ new \notin DOMAIN fails
            /\ ~sigs'[new].email_verified /\ ~sigs'[new].phone_verified
            /\ sigs'[new].verification_completed_at = NULL]_vars
    /\ [][\A row \in codes' \ codes :
            \/ \E old \in codes : /\ old.signature_id = row.signature_id
                                   /\ old.code_type = row.code_type
            \/ /\ row.attempts = 0
               /\ row.verified_at = NULL
               /\ row.signature_id = nextId - 1
               /\ \E r \in DOMAIN sub : /\ sub[r].sigId = row.signature_id
                                        /\ row.expires_at = sub[r].expiresAt]_vars
    /\ [](last.kind = "submit" /\ last.outcome = "duplicate" => last.sawDup)
    /\ [](last.kind = "checked" => ~last.sawDup)
    /\ []((last.kind = "verify" /\ last.live /\ last.correct /\ last.priorFails < 3) =>
            last.resp = VerifiedOk)

C24_Witness ==
    /\ last.kind = "verify"
    /\ last.resp = VerifiedOk
    /\ last.sigId = 2
    /\ FailsOf(1) = 3
    /\ DOMAIN sigs = {2}
    /\ Verified(sigs[2])
    /\ \A row \in codes : row.signature_id = 2 /\ row.attempts = 0

C24_WitnessExpired ==
    /\ last.kind = "verify"
    /\ last.resp = VerifiedOk
    /\ last.sigId = 2
    /\ FailsOf(1) = 0
    /\ DOMAIN sigs = {2}
    /\ now = 600001
    /\ \A row \in codes : row.expires_at = 1200001

\* the row of a submission that has answered: no request still holds its id
SubmissionReturned(id) ==
    /\ id \in DOMAIN sigs
    /\ \A r \in DOMAIN sub : sub[r].sigId # id

\* a signature that can no longer be verified: a code expired or exhausted
Locked(id) ==
    \E row \in codes : /\ row.signature_id = id
                       /\ (row.expires_at < now \/ row.attempts >= 3)

\* C25: no step of the public handlers removes or resets the row of a
\* submission that has answered: the row stays with its hashes, its code rows
\* stay with their hash and expiry and their attempts never decrease; and a
\* submission passes the duplicate SELECT only when no row holds its
\* emailHash or its phoneHash, whether or not that row's codes have expired
\* or its attempts are exhausted.
C25_PendingRowStays ==
    /\ [][\A id \in DOMAIN sigs : SubmissionReturned(id) =>
            /\ id \in DOMAIN sigs'
            /\ sigs'[id].email_hash = sigs[id].email_hash
            /\ sigs'[id].phone_hash = sigs[id].phone_hash
            /\ \A row \in codes : row.signature_id = id =>
                    \E kept \in codes' : /\ kept.signature_id = id
                                         /\ kept.code_type = row.code_type
                                         /\ kept.code_hash = row.code_hash
                                         /\ kept.expires_at = row.expires_at
                                         /\ kept.attempts >= row.attempts]_vars
    /\ [][\A r \in DOMAIN sub :
            (sub[r].pc = "check" /\ sub'[r].pc = "insertSig") =>
                \A id \in DOMAIN sigs : /\ sigs[id].email_hash # sub[r].emailHash
                                        /\ sigs[id].phone_hash # sub[r].phoneHash]_vars
    /\ [](last.kind = "submit" /\ last.outcome = "duplicate" =>
            sigs # << >> /\ last.sigId = 0)

\* a submission with another email and the same mobile, differently spaced,
\* is rejected while the only row is pending with exhausted attempts
C25_Witness ==
    /\ last.kind = "submit"
    /\ last.outcome = "duplicate"
    /\ DOMAIN sigs = {1}
    /\ ~Verified(sigs[1])
    /\ Locked(1)
    /\ \A row \in codes : row.attempts = 3 /\ row.expires_at >= now
    /\ sigs[1].email_hash = EmailIdentity(EmailJane)
    /\ nSub = 2

C25_WitnessExpired ==
    /\ last.kind = "submit"
    /\ last.outcome = "duplicate"
    /\ DOMAIN sigs = {1}
    /\ ~Verified(sigs[1])
    /\ \A row \in codes : row.attempts = 0 /\ row.expires_at < now

----------------------------------------------------------------------------
(* Verification properties *)

\* the code rows of a signature as the database holds them now
RowsOf(id) == SelectCodes(codes, id)

BothMarked(id) == \A row \in RowsOf(id) : row.verified_at # NULL

SomeExpired(id) == \E row \in RowsOf(id) : row.expires_at < now

SomeExhausted(id) == \E row \in RowsOf(id) : row.attempts >= 3

\* C26: the first check that fails decides the response of a verification
\* request that carries both codes: NotFound only when the signature is
\* absent, AlreadyVerified (by the flags) whatever the state of the codes,
\* CorruptState only when the two rows are not there, AlreadyVerified (by
\* verifiedAt) only when they are, CodesExpired only when they are there and
\* not both marked, TooManyAttempts only when in addition none is expired,
\* and the codes are compared only when none of these applies; so rows that
\* are both expired and exhausted give CodesExpired.
C26_ChecksInOrder ==
    /\ []((last.kind = "verify" /\ last.thrown = "" /\ last.resp # MissingCodes) =>
            LET id == last.sigId
            IN  /\ last.resp = NotFound => id \notin DOMAIN sigs
                /\ last.resp = AlreadyVerifiedSignature =>
                        id \in DOMAIN sigs /\ Verified(sigs[id])
                /\ last.resp = CorruptState => ~CodesComplete(RowsOf(id))
                /\ last.resp = AlreadyVerifiedCodes =>
                        CodesComplete(RowsOf(id)) /\ BothMarked(id)
                /\ last.resp = CodesExpired =>
                        CodesComplete(RowsOf(id)) /\ ~BothMarked(id) /\ SomeExpired(id)
                /\ last.resp = TooManyAttempts =>
                        /\ CodesComplete(RowsOf(id)) /\ ~BothMarked(id)
                        /\ ~SomeExpired(id) /\ SomeExhausted(id)
                /\ last.resp \in {InvalidCodes, VerifiedOk} => last.live)
    /\ [][\A v \in DOMAIN ver :
            (ver[v].pc = "idle" /\ ver'[v].pc = "loadCodes") =>
                ver'[v].id \in DOMAIN sigs /\ ~Verified(sigs[ver'[v].id])]_vars
    /\ [][\A v \in DOMAIN ver :
            (ver[v].pc = "loadCodes" /\ ver'[v].pc \in {"increment", "markCodes"}) =>
                /\ CodesComplete(RowsOf(ver[v].id)) /\ ~BothMarked(ver[v].id)
                /\ ~SomeExpired(ver[v].id) /\ ~SomeExhausted(ver[v].id)
                /\ ver'[v].pc = "markCodes" <=>
                        CodesMatch(codes, ver[v].id, ver[v].emailCode, ver[v].smsCode)]_vars

\* the rows are both expired and exhausted: CodesExpired
C26_Witness ==
    /\ last.kind = "verify"
    /\ last.resp = CodesExpired
    /\ CodesComplete(RowsOf(last.sigId))
    /\ \A row \in RowsOf(last.sigId) : row.expires_at < now /\ row.attempts >= 3

\* verified, then the codes expired: AlreadyVerified
C26_WitnessVerifiedExpired ==
    /\ last.kind = "verify"
    /\ last.resp = AlreadyVerifiedSignature
    /\ CodesComplete(RowsOf(last.sigId))
    /\ \A row \in RowsOf(last.sigId) : row.expires_at < now

C26_WitnessCorrupt ==
    /\ last.kind = "verify"
    /\ last.resp = CorruptState
    /\ last.sigId \in DOMAIN sigs

C26_WitnessMarked ==
    /\ last.kind = "verify"
    /\ last.resp = AlreadyVerifiedCodes

\* C10: a verification request that finds both code rows of a pending
\* signature, unexpired, after three verification requests on that signature
\* failed a comparison, is answered TooManyAttempts, whatever codes it
\* carries, and writes nothing.
C10_FourthAttemptRejected ==
    /\ []((last.kind = "verify" /\ last.live /\ last.priorFails >= 3) =>
            last.resp = TooManyAttempts)
    /\ [][(last'.kind = "verify" /\ last'.resp = TooManyAttempts) =>
            (sigs' = sigs /\ codes' = codes)]_vars

C10_Witness ==
    /\ last.kind = "verify"
    /\ last.resp = TooManyAttempts
    /\ last.priorFails = 3
    /\ last.correct
    /\ last.sigId \in DOMAIN sigs
    /\ ~Verified(sigs[last.sigId])

\* C12: a verification request that finds both code rows of its signature,
\* not both marked verified, and is processed at a time later than their
\* expires_at is answered CodesExpired, also when both submitted codes are
\* correct; that answer changes no row, so the signature stays unverified;
\* and no request processed after expires_at is ever answered with success.
C12_ExpiredCodesRejected ==
    /\ []((last.kind = "verify" /\ last.late) => last.resp = CodesExpired)
    /\ [][(last'.kind = "verify" /\ last'.resp = CodesExpired) =>
            (sigs' = sigs /\ codes' = codes)]_vars
    /\ [](\A v \in DOMAIN ver : ver[v].pc # "idle" => ~ver[v].late)

C12_Witness ==
    /\ last.kind = "verify"
    /\ last.resp = CodesExpired
    /\ last.late
    /\ last.correct
    /\ last.sigId \in DOMAIN sigs
    /\ ~Verified(sigs[last.sigId])

\* C13: after a verification request was answered with success, the
\* signature row (while it exists) has email_verified and phone_verified
\* true and verification_completed_at set; every verification request that
\* arrives afterwards for that signature, also one with the correct codes, is
\* answered "Signature already verified" and changes no row (a request whose
\* body cannot be read or whose SELECT throws is answered by the catch).
C13_VerifiedThenAlreadyVerified ==
    /\ [](\A id \in DOMAIN sigs : OksOf(id) >= 1 =>
            /\ sigs[id].email_verified
            /\ sigs[id].phone_verified
            /\ sigs[id].verification_completed_at # NULL)
    /\ [][nVer' = nVer + 1 =>
            /\ \A v \in DOMAIN ver :
                  (ver[v].pc = "idle" /\ ver'[v].pc # "idle") => OksOf(ver'[v].id) = 0
            /\ (last'.kind = "verify" /\ last'.thrown = "" /\ OksOf(last'.sigId) >= 1
                    /\ last'.sigId \in DOMAIN sigs) =>
                  /\ last'.resp = AlreadyVerifiedSignature
                  /\ sigs' = sigs
                  /\ codes' = codes]_vars

C13_Witness ==
    /\ last.kind = "verify"
    /\ last.resp = AlreadyVerifiedSignature
    /\ last.correct
    /\ OksOf(last.sigId) = 1
    /\ Verified(sigs[last.sigId])

\* C14: for every signature, verification_completed_at is written at most
\* once: once it is set it never changes, and of the verification requests
\* for one signature at most one is answered with success, also when two
\* requests carrying the correct codes are processed concurrently.
C14_CompletedAtWrittenOnce ==
    /\ [][\A id \in DOMAIN sigs :
            (sigs[id].verification_completed_at # NULL /\ id \in DOMAIN sigs') =>
                sigs'[id].verification_completed_at = sigs[id].verification_completed_at]_vars
    /\ [](\A id \in DOMAIN oks : oks[id] <= 1)

\* C15: once a verification_codes row has verified_at set, no verification
\* request changes it: the row stays in the table as it is (attempts,
\* verified_at, code_hash and expires_at fixed) until the signature is deleted.
C15_VerifiedCodeImmutable ==
    [][\A row \in codes :
        row.verified_at # NULL =>
            \/ row \in codes'
            \/ row.signature_id \notin DOMAIN sigs']_vars

\* C16: once a code row of a signature has attempts >= 3 while the signature
\* is unverified, no later step marks that signature verified.
C16_ExhaustedNeverVerified ==
    [][\A id \in DOMAIN sigs :
        (/\ ~Verified(sigs[id])
         /\ \E row \in SelectCodes(codes, id) : row.attempts >= 3
         /\ id \in DOMAIN sigs') => ~Verified(sigs'[id])]_vars

\* C17 (as stated): when two verification requests for one signature both
\* read attempts = 2 and both fail their comparison, the stored attempts of
\* each code row ends at 3.
C17_IncrementsCollapse ==
    (/\ last.kind = "verify" /\ last.resp = InvalidCodes
     /\ last.readEmail = 2 /\ last.readPhone = 2 /\ last.peerRead = 2
     /\ last.newEmail # NULL) =>
        (last.newEmail = 3 /\ last.newPhone = 3)

\* C17 (as the handler behaves): when two verification requests for one
\* signature both read attempts = 2 and both fail their comparison, each
\* UPDATE adds 1 in the database and the stored attempts of each code row
\* ends at 4; both are answered attemptsRemaining = 0. No increment is ever
\* lost: the stored attempts of a row is the number of failed requests
\* answered for its signature.
C17_BothIncrementsCount ==
    /\ (/\ last.kind = "verify" /\ last.resp = InvalidCodes
         /\ last.readEmail = 2 /\ last.readPhone = 2 /\ last.peerRead = 2
         /\ last.newEmail # NULL) =>
            /\ last.newEmail = 4
            /\ last.newPhone = 4
            /\ last.attemptsRemaining = 0
    /\ \A row \in codes : row.attempts = FailsOf(row.signature_id)

C17_Witness ==
    /\ last.kind = "verify"
    /\ last.resp = InvalidCodes
    /\ last.readEmail = 2
    /\ last.peerRead = 2
    /\ last.newEmail = 4
    /\ last.newPhone = 4

\* C18: a signature enters the GET /api/signatures list only by the step
\* that answers a verification request for it with success, and that request
\* submitted an email code and an SMS code that both matched the stored
\* hashes, was processed when the codes were not expired and found both
\* attempts counters below 3; submissions, duplicate checks and failed
\* verifications list nothing.
C18_ListedOnlyByVerification ==
    /\ [][\A id \in ListSignatures(sigs') :
            (id \notin DOMAIN sigs \/ id \notin ListSignatures(sigs)) =>
                /\ last'.kind = "verify"
                /\ last'.resp = VerifiedOk
                /\ last'.sigId = id
                /\ last'.correct
                /\ last'.live
                /\ ~last'.late
                /\ last'.priorFails < 3]_vars
    /\ [](\A id \in ListSignatures(sigs) : OksOf(id) >= 1)

C18_Witness ==
    /\ last.kind = "verify"
    /\ last.resp = VerifiedOk
    /\ last.correct
    /\ last.sigId \in ListSignatures(sigs)
    /\ FailsOf(last.sigId) = 2

\* C19: the number returned by GET /api/signatures/count is the number of
\* signatures with both verification flags true, which is also the number of
\* entries of the GET /api/signatures list.
C19_CountIsVerifiedCount ==
    last.kind = "count" =>
        /\ last.count = CountVerified(sigs)
        /\ last.count = Cardinality(ListSignatures(sigs))

\* C11: a verification request that passed the expiry and attempt-limit
\* checks and failed a comparison adds exactly 1 to the stored attempts of the
\* email row and of the phone row of its signature and leaves every other
\* row alone; it reports attemptsRemaining = max(0, min(3 - newEmailAttempts,
\* 3 - newPhoneAttempts)) for the counters as it left them (no other request
\* having incremented them since it read them), and the failure that follows
\* k earlier failures (k = 0, 1, 2) reports 2 - k: in sequence 2, 1, 0.
C11_FailureCountsOnBoth ==
    /\ [][(last'.kind = "verify" /\ last'.resp = InvalidCodes) =>
            /\ \A row \in codes :
                  IF row.signature_id = last'.sigId
                  THEN [row EXCEPT !.attempts = @ + 1] \in codes' /\ row \notin codes'
                  ELSE row \in codes'
            /\ Cardinality(codes') = Cardinality(codes)
            /\ sigs' = sigs]_vars
    /\ []((last.kind = "verify" /\ last.resp = InvalidCodes) =>
            /\ (last.newEmail = last.readEmail + 1 /\ last.newPhone = last.readPhone + 1) =>
                  last.attemptsRemaining =
                      Max(0, Min(3 - last.newEmail, 3 - last.newPhone))
            /\ last.priorFails \in 0..2
            /\ last.attemptsRemaining = 2 - last.priorFails)

C11_Witness ==
    /\ last.kind = "verify"
    /\ last.resp = InvalidCodes
    /\ last.priorFails = 2
    /\ last.attemptsRemaining = 0
    /\ last.newEmail = 3
    /\ last.newPhone = 3

\* the responses of a verification that is turned away before the comparison
Rejections ==
    {MissingCodes, NotFound, AlreadyVerifiedSignature, CorruptState, AlreadyVerifiedCodes,
     CodesExpired, TooManyAttempts}

\* C27: a verification request answered NotFound, AlreadyVerified,
\* CorruptState, CodesExpired or TooManyAttempts has written nothing: the
\* answering step comes from a request that has only read, and no step of a
\* request that has only read changes a signature row or a code row; the step
\* that answers InvalidCodes leaves the signature rows as they are and the
\* code rows as they are but for attempts, which is one more on the rows of
\* that signature.
C27_RejectionsWriteNothing ==
    /\ [][(last'.kind = "verify" /\ last'.resp \in Rejections) =>
            /\ sigs' = sigs /\ codes' = codes /\ nextId' = nextId
            /\ \E v \in DOMAIN ver :
                    /\ ver[v].pc \in {"idle", "loadCodes"}
                    /\ ver'[v].pc = "idle"
                    /\ \A w \in DOMAIN ver \ {v} : ver'[w] = ver[w]]_vars
    /\ [][\A v \in DOMAIN ver :
            (ver[v].pc \in {"idle", "loadCodes"} /\ ver'[v] # ver[v]) =>
                sigs' = sigs /\ codes' = codes]_vars
    /\ [][(last'.kind = "verify" /\ last'.resp = InvalidCodes) =>
            /\ sigs' = sigs /\ nextId' = nextId
            /\ Cardinality(codes') = Cardinality(codes)
            /\ \A row \in codes :
                    \E new \in codes' :
                        /\ new = [row EXCEPT !.attempts = new.attempts]
                        /\ new.attempts =
                              IF row.signature_id = last'.sigId THEN row.attempts + 1
                              ELSE row.attempts]_vars

\* a request turned away for exhausted attempts, the rows still at 3
C27_Witness ==
    /\ last.kind = "verify"
    /\ last.resp = TooManyAttempts
    /\ last.priorFails = 3
    /\ \A row \in RowsOf(last.sigId) : row.attempts = 3 /\ row.verified_at = NULL
    /\ ~Verified(sigs[last.sigId])

C27_WitnessInvalid ==
    /\ last.kind = "verify"
    /\ last.resp = InvalidCodes
    /\ \A row \in RowsOf(last.sigId) : row.attempts = 1 /\ row.verified_at = NULL
    /\ ~Verified(sigs[last.sigId])

\* C28 as stated: when no submission is in progress every signature row has
\* its two code rows, one of type email and one of type phone, also after a
\* submission ended with an error once the signature row was inserted.
C28_EverySignatureHasTwoCodes ==
    (\A r \in DOMAIN sub : sub[r].pc = "idle") =>
        \A id \in DOMAIN sigs : CodesComplete(RowsOf(id))

\* C29 as stated: when no verification is in progress, the two code rows of
\* a signature both have verified_at set exactly when the signature has both
\* flags true and verification_completed_at set, also after a failure
\* between the two UPDATE statements of the success step.
C29_CodesAndSignatureAgree ==
    (\A v \in DOMAIN ver : ver[v].pc = "idle") =>
        \A id \in DOMAIN sigs :
            (CodesComplete(RowsOf(id)) /\ BothMarked(id)) <=>
                (Verified(sigs[id]) /\ sigs[id].verification_completed_at # NULL)

\* C30 as stated: when the check answers available = true for an email and a
\* mobile with valid fields, and the table did not change between the
\* SELECTs of the check, the duplicate SELECT of a submission of the same
\* email and mobile in the same state of the table finds no row.
C30_CheckAgreesWithSubmission ==
    (last.kind = "check" /\ last.available /\ last.fieldsOk /\ last.steady) =>
        ~last.wouldReject

====
